---- MODULE Spec2Model ----
(***************************************************************************)
(* Model of python_service: the SpeechService object (Whisper STT and      *)
(* Kokoro TTS handles, transcription and synthesis pipelines) and the      *)
(* FastAPI handlers in main.py that front it.                              *)
(*                                                                         *)
(* Scheduling: the handlers and the SpeechService coroutines run on one    *)
(* asyncio event loop, so the code between two awaits is one atomic step.  *)
(* The only await inside a pipeline is loop.run_in_executor, so a request  *)
(* is three steps: the call up to the await, the worker thread running the *)
(* blocking engine call, and the coroutine resumed with the future's       *)
(* result.  initialize, cleanup and get_health_status hold no await.       *)
(*                                                                         *)
(* Numbers: speeds and pitches are in hundredths (100 is 1.0), samples are *)
(* 16-bit sample units, avg_logprob values are in tenths and confidences   *)
(* in units of 1/SCALE.                                                    *)
(***************************************************************************)
EXTENDS Integers, Sequences, FiniteSets, TLC

\* ---------------------------------------------------------------- bounds
MaxRequests == 2     \* request slots that can be in flight at once
MaxPaths    == 2     \* staging file names the temp directory can hold
MaxSegments == 2     \* segments in one engine result

VARIABLES
    whisper_model,      \* SpeechService.whisper_model: None or a loaded handle
    kokoro_pipeline,    \* SpeechService.kokoro_pipeline: None or a loaded handle
    initialized,        \* SpeechService._initialized
    pool_call,          \* the last initialize()/cleanup() call and how it ended
    librosa_available,  \* whether `import librosa` succeeds in this deployment
    MAX_TEXT_LENGTH,    \* Settings.MAX_TEXT_LENGTH as read from the environment
    files,              \* the temp directory: staging path -> bytes on storage
    req                 \* the requests: slot -> call record

vars == <<whisper_model, kokoro_pipeline, initialized, pool_call,
          librosa_available, MAX_TEXT_LENGTH, files, req>>

pool == <<whisper_model, kokoro_pipeline, initialized>>
env  == <<librosa_available, MAX_TEXT_LENGTH>>

None == "None"                  \* Python's None, the value of an absent handle
Requests == 1..MaxRequests
Paths == 1..MaxPaths

\* ------------------------------------------------- values and call records
NoArgs   == [none |-> TRUE]
NoFuture == [state |-> "none"]
NoOutput == [kind |-> "none"]
NoPath   == 0                   \* temp_file_path outside the staging block

\* A request slot with no call in it.
Idle == [op |-> "none", via |-> "none", pc |-> "idle", args |-> NoArgs,
         temp_file_path |-> NoPath,
         inferences |-> 0, fut |-> NoFuture, out |-> NoOutput]

\* raise RuntimeError(message) out of a SpeechService coroutine.
Raised(message) == [kind |-> "raised", error |-> "RuntimeError", message |-> message]
\* return value out of a SpeechService coroutine.
Returned(value) == [kind |-> "returned", value |-> value]

\* The future of loop.run_in_executor: resolved with a result or an exception.
FutResult(handle, value) == [state |-> "result", handle |-> handle, value |-> value]
FutException(handle, what) == [state |-> "exception", handle |-> handle, what |-> what]

\* ------------------------------------------------------------ the handles
\* SpeechService.__init__
InitPool ==
    /\ whisper_model = None
    /\ kokoro_pipeline = None
    /\ initialized = FALSE

\* get_health_status answering from the flag instead of the handles.
get_health_status_by_flag ==
    [whisper |-> initialized, kokoro |-> initialized, initialized |-> initialized]

\* SpeechService.get_health_status()
get_health_status ==
    [whisper |-> whisper_model # None,
     kokoro |-> kokoro_pipeline # None,
     initialized |-> initialized]

\* How an initialize() or cleanup() call ended: the loads it invoked and the
\* health status it found.
PoolCall(op, outcome, loads) ==
    [op |-> op, outcome |-> outcome, loads |-> loads, before |-> get_health_status]

LoadOutcomes == {"ok", "raise"}

\* initialize() without the early return: an initialized service loads again.
initialize_reloading(stt, tts) ==
    IF stt = "raise"
    THEN /\ pool_call' = PoolCall("initialize", "raised", 1)
         /\ UNCHANGED pool
    ELSE IF tts = "raise"
    THEN /\ whisper_model' = "Whisper"
         /\ pool_call' = PoolCall("initialize", "raised", 2)
         /\ UNCHANGED <<kokoro_pipeline, initialized>>
    ELSE /\ whisper_model' = "Whisper"
         /\ kokoro_pipeline' = "KPipeline"
         /\ initialized' = TRUE
         /\ pool_call' = PoolCall("initialize", "returned", 2)

\* SpeechService.initialize(): stt and tts are what whisper.load_model and
\* KPipeline do when invoked (a load that raises leaves its attribute as it
\* was).  pool_call records how the call ended and the loads it invoked.
initialize(stt, tts) ==
    IF initialized
    THEN /\ pool_call' = PoolCall("initialize", "returned", 0)
         /\ UNCHANGED pool
    ELSE IF stt = "raise"
    THEN /\ pool_call' = PoolCall("initialize", "raised", 1)
         /\ UNCHANGED pool
    ELSE IF tts = "raise"
    THEN /\ whisper_model' = "Whisper"
         /\ pool_call' = PoolCall("initialize", "raised", 2)
         /\ UNCHANGED <<kokoro_pipeline, initialized>>
    ELSE /\ whisper_model' = "Whisper"
         /\ kokoro_pipeline' = "KPipeline"
         /\ initialized' = TRUE
         /\ pool_call' = PoolCall("initialize", "returned", 2)

Initialize ==
    /\ \E stt \in LoadOutcomes, tts \in LoadOutcomes : initialize(stt, tts)
    /\ UNCHANGED <<env, files, req>>

\* cleanup() that releases the handles and forgets to reset the flag.
cleanup_keeping_flag ==
    /\ whisper_model' = None
    /\ kokoro_pipeline' = None
    /\ UNCHANGED initialized
    /\ pool_call' = PoolCall("cleanup", "returned", 0)

\* SpeechService.cleanup()
cleanup ==
    /\ whisper_model' = (IF whisper_model # None THEN None ELSE whisper_model)
    /\ kokoro_pipeline' = (IF kokoro_pipeline # None THEN None ELSE kokoro_pipeline)
    /\ initialized' = FALSE
    /\ pool_call' = PoolCall("cleanup", "returned", 0)

Cleanup ==
    /\ cleanup
    /\ UNCHANGED <<env, files, req>>

\* main.health_check: the /api/v1/health handler (speech_service is set).
health_check ==
    LET status == get_health_status
    IN  [status |-> IF status.whisper /\ status.kokoro THEN "healthy" ELSE "degraded",
         services |-> status,
         version |-> "1.0.0"]

Health(r) ==
    /\ req[r].pc = "idle"
    /\ req' = [req EXCEPT ![r] = [Idle EXCEPT !.op = "health", !.via = "http",
                                               !.pc = "returned",
                                               !.out = Returned(health_check)]]
    /\ UNCHANGED <<pool, pool_call, env, files>>

\* The response has been delivered: the slot is free for the next call.
Retire(r) ==
    /\ req[r].pc \in {"returned", "raised", "rejected"}
    /\ req' = [req EXCEPT ![r] = Idle]
    /\ UNCHANGED <<pool, pool_call, env, files>>

\* --------------------------------------------------------- pure helpers
Max(a, b) == IF a >= b THEN a ELSE b
Min(a, b) == IF a <= b THEN a ELSE b

\* The sequence s itself, held as a tuple (the same value, computed once).
Array(s) == s \o <<>>

RECURSIVE Sum(_)
Sum(s) == IF s = <<>> THEN 0 ELSE Head(s) + Sum(Tail(s))

\* Characters str.strip() removes (strings are sequences of characters).
Whitespace == {" ", "\t", "\n"}

RECURSIVE lstrip(_)
lstrip(s) == IF s # <<>> /\ Head(s) \in Whitespace THEN lstrip(Tail(s)) ELSE s

RECURSIVE rstrip(_)
rstrip(s) ==
    IF s # <<>> /\ s[Len(s)] \in Whitespace THEN rstrip(SubSeq(s, 1, Len(s) - 1)) ELSE s

\* str.strip()
strip(s) == rstrip(lstrip(s))

\* dict.get(key, default) on an engine result whose optional keys are d.keys.
Get(d, key, default) == IF key \in d.keys THEN d[key] ELSE default

\* Fixed point: a float x is the integer x * SCALE.
SCALE == 10000
\* avg_logprob values are in units of 1/LogprobDen.
LogprobDen == 10

\* np.exp(n / d) for n >= 0, d > 0, by its power series in fixed point.
RECURSIVE ExpSeries(_, _, _, _)
ExpSeries(n, d, k, term) ==
    IF term = 0 THEN 0 ELSE term + ExpSeries(n, d, k + 1, (term * n) \div (d * k))

\* np.exp(n / d), d > 0.
Exp(n, d) ==
    IF n >= 0 THEN ExpSeries(n, d, 1, SCALE)
    ELSE (SCALE * SCALE) \div ExpSeries(-n, d, 1, SCALE)

\* The fallback confidence 0.8.
DefaultConfidence == (8 * SCALE) \div 10

\* _calculate_confidence without the clamp.
_calculate_confidence_unclamped(result) ==
    IF "segments" \in result.keys /\ result.segments # <<>>
    THEN LET probs == [i \in DOMAIN result.segments |-> result.segments[i].avg_logprob]
         IN  Exp(Sum(probs), Len(probs) * LogprobDen)
    ELSE DefaultConfidence

\* SpeechService._calculate_confidence(result)
_calculate_confidence(result) ==
    IF "segments" \in result.keys /\ result.segments # <<>>
    THEN LET probs == [i \in DOMAIN result.segments |-> result.segments[i].avg_logprob]
         IN  Max(0, Min(SCALE, Exp(Sum(probs), Len(probs) * LogprobDen)))
    ELSE DefaultConfidence

\* The dictionary transcribe_audio returns for an engine result.
TranscriptionResult(result) ==
    [text |-> strip(result.text),
     language |-> Get(result, "language", "unknown"),
     confidence |-> _calculate_confidence(result),
     duration |-> Get(result, "duration", 0)]

\* ----------------------------------------------------- the temp directory
Exists(p) == p \in DOMAIN files
\* The file p is created, or rewritten, with the given bytes.
WithFile(p, bytes) == [q \in DOMAIN files \cup {p} |-> IF q = p THEN bytes ELSE files[q]]
\* os.unlink(p)
WithoutFile(p) == [q \in DOMAIN files \ {p} |-> files[q]]

\* A staging file under one fixed name instead of a fresh one.
FixedPath == CHOOSE p \in Paths : \A q \in Paths : p <= q

\* The name tempfile.NamedTemporaryFile gives a new file: one no file has.
\* Names are interchangeable, so the model takes the least free one; NoPath
\* when the directory is full.
NewPath ==
    IF Paths \ DOMAIN files = {} THEN NoPath
    ELSE CHOOSE p \in Paths \ DOMAIN files : \A q \in Paths \ DOMAIN files : p <= q

\* ------------------------------------------------------- transcription
\* A readiness check that looks at the handle alone.
transcribe_ready_by_handle == whisper_model # None

\* The readiness check that opens transcribe_audio.
transcribe_ready == initialized /\ whisper_model # None

\* What staging the audio can do: NamedTemporaryFile raises (no file is made),
\* temp_file.write raises (the file is there, its bytes not yet flushed), or
\* the with-block completes.
StagingOutcomes == {"create_raises", "write_raises", "ok"}

\* transcribe_audio(audio_data, language), up to the await on the executor.
transcribe_audio(r, audio_data, language, staging) ==
    LET call == [Idle EXCEPT !.op = "transcribe", !.via = "service",
                             !.args = [audio_data |-> audio_data, language |-> language]]
    IN
    /\ UNCHANGED pool
    /\ IF ~transcribe_ready
       THEN /\ req' = [req EXCEPT ![r] = [call EXCEPT !.pc = "raised",
                           !.out = Raised("Whisper model not initialized")]]
            /\ UNCHANGED files
       ELSE IF staging = "create_raises"
       THEN /\ req' = [req EXCEPT ![r] = [call EXCEPT !.pc = "raised",
                           !.out = Raised("Transcription failed")]]
            /\ UNCHANGED files
       ELSE \E p \in {NewPath} \ {NoPath} :
               IF staging = "write_raises"
               THEN /\ files' = WithFile(p, <<>>)
                    /\ req' = [req EXCEPT ![r] = [call EXCEPT !.pc = "raised",
                                   !.out = Raised("Transcription failed")]]
               ELSE /\ files' = WithFile(p, audio_data)
                    /\ req' = [req EXCEPT ![r] = [call EXCEPT !.pc = "scheduled",
                                   !.temp_file_path = p]]

\* SpeechService._transcribe_sync(audio_path, language) on a worker thread:
\* self.whisper_model is read when the worker runs; the engine reads the file.
_transcribe_sync(r, results, engine_raises) ==
    LET c == req[r]
        handle == whisper_model
        options == IF c.args.language # "auto" THEN <<c.args.language>> ELSE <<>>
    IN
    /\ UNCHANGED <<pool, files>>
    /\ IF handle = None
       THEN req' = [req EXCEPT ![r] = [c EXCEPT !.pc = "worker_done",
                       !.fut = FutException(handle, "AttributeError")]]
       ELSE IF ~Exists(c.temp_file_path)
       THEN req' = [req EXCEPT ![r] = [c EXCEPT !.pc = "worker_done",
                       !.inferences = c.inferences + 1,
                       !.fut = FutException(handle, "FileNotFoundError")]]
       ELSE IF engine_raises
       THEN req' = [req EXCEPT ![r] = [c EXCEPT !.pc = "worker_done",
                       !.inferences = c.inferences + 1,
                       !.fut = FutException(handle, "engine")]]
       ELSE \E result \in results :
               req' = [req EXCEPT ![r] = [c EXCEPT !.pc = "worker_done",
                       !.inferences = c.inferences + 1,
                       !.fut = FutResult(handle,
                                  [input |-> files[c.temp_file_path], options |-> options,
                                   result |-> result])]]

\* transcribe_audio that drops the model when the inference failed.
transcribe_resume_unloading(r) ==
    LET c == req[r]
    IN  /\ IF c.fut.state = "result" THEN UNCHANGED pool
           ELSE /\ whisper_model' = None
                /\ initialized' = FALSE
                /\ UNCHANGED kokoro_pipeline
        /\ files' = (IF Exists(c.temp_file_path) THEN WithoutFile(c.temp_file_path)
                     ELSE files)
        /\ req' = [req EXCEPT ![r] = [c EXCEPT
                !.pc = IF c.fut.state = "result" THEN "returned" ELSE "raised",
                !.temp_file_path = NoPath,
                !.out = IF c.fut.state = "result"
                        THEN Returned(TranscriptionResult(c.fut.value.result))
                        ELSE Raised("Transcription failed")]]

\* transcribe_audio resumed with the future: the result dictionary or the
\* wrapped exception, and the finally block that unlinks the staging file.
transcribe_resume(r) ==
    LET c == req[r]
    IN  /\ UNCHANGED pool
        /\ files' = (IF Exists(c.temp_file_path) THEN WithoutFile(c.temp_file_path)
                     ELSE files)
        /\ req' = [req EXCEPT ![r] = [c EXCEPT
                !.pc = IF c.fut.state = "result" THEN "returned" ELSE "raised",
                !.temp_file_path = NoPath,
                !.out = IF c.fut.state = "result"
                        THEN Returned(TranscriptionResult(c.fut.value.result))
                        ELSE Raised("Transcription failed")]]

\* ------------------------------------------------------------ synthesis
\* np.zeros(24000): the samples substituted when the engine yields nothing.
SilenceSamples == 24000
\* sample_rate=24000 of the encoded output.
SampleRate == 24000
\* A speed or pitch of 1.0.
Unit == 100

\* np.concatenate(audio_segments)
RECURSIVE concatenate(_)
concatenate(segments) ==
    IF segments = <<>> THEN <<>> ELSE Head(segments) \o concatenate(Tail(segments))

\* _synthesize_sync without the silence substitution.
collect_without_silence(audio_segments) == concatenate(audio_segments)

\* _synthesize_sync that puts each new segment in front of the earlier ones.
collect_newest_first(audio_segments) ==
    IF audio_segments # <<>>
    THEN concatenate(Array([i \in 1..Len(audio_segments) |->
                               audio_segments[Len(audio_segments) + 1 - i]]))
    ELSE Array([i \in 1..SilenceSamples |-> 0])

\* What _synthesize_sync returns once the generator has been drained into
\* audio_segments.
collect(audio_segments) ==
    IF audio_segments # <<>>
    THEN concatenate(audio_segments)
    ELSE Array([i \in 1..SilenceSamples |-> 0])

\* Python's round(n / d) for n >= 0, d > 0: halves go to the even neighbour.
Round(n, d) ==
    LET q == n \div d
        twice == 2 * (n % d)
    IN  IF twice < d THEN q
        ELSE IF twice > d THEN q + 1
        ELSE IF q % 2 = 0 THEN q ELSE q + 1

\* librosa.effects.time_stretch(audio, rate=speed): round(len / rate) samples.
\* The phase vocoder's sample values are outside this code; a stretched sample
\* is modelled as the input sample at the same relative position.
time_stretch_of(audio, n, speed) ==
    Array([i \in 1..Round(n * Unit, speed) |->
              audio[Min(n, ((i - 1) * speed) \div Unit + 1)]])

time_stretch(audio, speed) == time_stretch_of(audio, Len(audio), speed)

\* audio[::step]
stride(audio, step) ==
    Array([i \in 1..((Len(audio) + step - 1) \div step) |-> audio[(i - 1) * step + 1]])

\* np.repeat(audio, repeat)
repeat_each(audio, repeat) ==
    Array([i \in 1..(Len(audio) * repeat) |-> audio[(i - 1) \div repeat + 1]])

Ok(audio) == [ok |-> TRUE, audio |-> audio]
Fails == [ok |-> FALSE, audio |-> <<>>]

\* _adjust_speed whose fallback rounds the step and the repeat count to the
\* nearest integer instead of truncating them.
_adjust_speed_nearest(audio, speed, librosa) ==
    IF speed = Unit THEN Ok(audio)
    ELSE IF librosa
    THEN IF speed <= 0 THEN Fails ELSE Ok(time_stretch(audio, speed))
    ELSE IF speed > Unit
    THEN Ok(stride(audio, Round(speed, Unit)))
    ELSE IF speed <= 0 THEN Fails
    ELSE Ok(repeat_each(audio, Round(Unit, speed)))

\* SpeechService._adjust_speed(audio, speed); librosa is whether the import
\* succeeds.  A rate <= 0 makes librosa raise, a speed of 0 divides by zero
\* and a negative repeat count makes np.repeat raise.
_adjust_speed(audio, speed, librosa) ==
    IF speed = Unit THEN Ok(audio)
    ELSE IF librosa
    THEN IF speed <= 0 THEN Fails ELSE Ok(time_stretch(audio, speed))
    ELSE IF speed > Unit
    THEN Ok(stride(audio, speed \div Unit))
    ELSE IF speed <= 0 THEN Fails
    ELSE Ok(repeat_each(audio, Unit \div speed))

\* The 16-bit range sf.write clips a float sample to (WAV defaults to PCM_16).
Int16Min == -32768
Int16Max == 32767

\* SpeechService._audio_to_wav_bytes(audio, sample_rate)
_audio_to_wav_bytes(audio, sample_rate) ==
    [format |-> "WAV", samplerate |-> sample_rate,
     frames |-> Array([i \in DOMAIN audio |-> Max(Int16Min, Min(Int16Max, audio[i]))])]

\* A pipeline that folds the pitch into the resampling factor.
pitched_speed(args) == (args.speed * args.pitch) \div Unit

\* The speed the pipeline applies for a call's arguments.
applied_speed(args) == args.speed

\* synthesize_speech after the await: speed adjustment and encoding.
synthesis_output(audio_data, args, librosa) ==
    LET adjusted == IF applied_speed(args) # Unit
                    THEN _adjust_speed(audio_data, applied_speed(args), librosa)
                    ELSE Ok(audio_data)
    IN  IF adjusted.ok
        THEN Returned(_audio_to_wav_bytes(adjusted.audio, SampleRate))
        ELSE Raised("Speech synthesis failed")

\* The readiness check that opens synthesize_speech.
synthesize_ready == initialized /\ kokoro_pipeline # None

\* SpeechService.synthesize_speech(text, voice, speed, pitch), up to the await.
synthesize_speech(r, via, args) ==
    LET call == [Idle EXCEPT !.op = "synthesize", !.via = via, !.args = args]
    IN  /\ UNCHANGED <<pool, files>>
        /\ IF ~synthesize_ready
           THEN req' = [req EXCEPT ![r] = [call EXCEPT !.pc = "raised",
                           !.out = Raised("Kokoro pipeline not initialized")]]
           ELSE req' = [req EXCEPT ![r] = [call EXCEPT !.pc = "scheduled"]]

\* SpeechService._synthesize_sync(text, voice) on a worker thread:
\* self.kokoro_pipeline is read when the worker runs; the generator yields the
\* segments of `yielded` and then ends, or raises after them.
_synthesize_sync(r, yielded, generator_raises) ==
    LET c == req[r]
        handle == kokoro_pipeline
    IN
    /\ UNCHANGED <<pool, files>>
    /\ IF handle = None
       THEN req' = [req EXCEPT ![r] = [c EXCEPT !.pc = "worker_done",
                       !.fut = FutException(handle, "TypeError")]]
       ELSE IF generator_raises
       THEN req' = [req EXCEPT ![r] = [c EXCEPT !.pc = "worker_done",
                       !.inferences = c.inferences + 1,
                       !.fut = FutException(handle, "engine")]]
       ELSE req' = [req EXCEPT ![r] = [c EXCEPT !.pc = "worker_done",
                       !.inferences = c.inferences + 1,
                       !.fut = FutResult(handle,
                                  [input |-> [text |-> c.args.text, voice |-> c.args.voice],
                                   yielded |-> yielded,
                                   audio |-> collect(yielded)])]]

\* synthesize_speech that submits the inference once more when it failed.
synthesize_resume_retrying(r) ==
    LET c == req[r]
    IN  /\ UNCHANGED <<pool, files>>
        /\ req' = [req EXCEPT ![r] =
                IF c.fut.state = "exception" /\ c.inferences < 2
                THEN [c EXCEPT !.pc = "scheduled", !.fut = NoFuture]
                ELSE [c EXCEPT !.pc = "returned",
                               !.out = synthesis_output(<<>>, c.args, librosa_available)]]

\* synthesize_speech resumed with the future.
synthesize_resume(r) ==
    LET c == req[r]
        out == IF c.fut.state = "result"
               THEN synthesis_output(c.fut.value.audio, c.args, librosa_available)
               ELSE Raised("Speech synthesis failed")
    IN  /\ UNCHANGED <<pool, files>>
        /\ req' = [req EXCEPT ![r] = [c EXCEPT
                !.pc = IF out.kind = "returned" THEN "returned" ELSE "raised",
                !.out = out]]

\* ------------------------------------------------- the synthesize endpoint
\* max_length of SynthesisRequest.text and the handler's own limit.
TextLimit == 1000
MinSpeed == 50
MaxSpeed == 200
MinPitch == 50
MaxPitch == 200

\* A text is its length and the length of text.strip().
Text(len, stripped) == [len |-> len, stripped |-> stripped]

\* SynthesisRequest: the field constraints pydantic enforces before the
\* handler runs.
SynthesisRequest(args) ==
    /\ args.text.len >= 1
    /\ args.text.len <= TextLimit
    /\ args.speed >= MinSpeed /\ args.speed <= MaxSpeed
    /\ args.pitch >= MinPitch /\ args.pitch <= MaxPitch

HttpError(status) == [kind |-> "http_error", status |-> status]

\* main.synthesize_speech: POST /api/v1/speech/synthesize.
synthesize_endpoint(r, args) ==
    LET call == [Idle EXCEPT !.op = "synthesize", !.via = "http", !.args = args]
    IN  IF ~SynthesisRequest(args)
        THEN /\ req' = [req EXCEPT ![r] = [call EXCEPT !.pc = "rejected",
                            !.out = HttpError(422)]]
             /\ UNCHANGED <<pool, files>>
        ELSE IF args.text.len = 0 \/ args.text.stripped = 0 \/ args.text.len > TextLimit
        THEN /\ req' = [req EXCEPT ![r] = [call EXCEPT !.pc = "rejected",
                            !.out = HttpError(500)]]
             /\ UNCHANGED <<pool, files>>
        ELSE synthesize_speech(r, "http", args)

\* ------------------------------------------------------------ the steps
TranscribeCall(r, audios, languages) ==
    /\ req[r].pc = "idle"
    /\ \E audio_data \in audios, language \in languages, staging \in StagingOutcomes :
          transcribe_audio(r, audio_data, language, staging)
    /\ UNCHANGED <<pool_call, env>>

TranscribeWorker(r, results) ==
    /\ req[r].op = "transcribe" /\ req[r].pc = "scheduled"
    /\ \E engine_raises \in BOOLEAN : _transcribe_sync(r, results, engine_raises)
    /\ UNCHANGED <<pool_call, env>>

TranscribeResume(r) ==
    /\ req[r].op = "transcribe" /\ req[r].pc = "worker_done"
    /\ transcribe_resume(r)
    /\ UNCHANGED <<pool_call, env>>

\* A request arriving at the endpoint.
SynthesizeRequest(r, argss) ==
    /\ req[r].pc = "idle"
    /\ \E args \in argss : synthesize_endpoint(r, args)
    /\ UNCHANGED <<pool_call, env>>

\* A caller of the SpeechService object itself.
SynthesizeCall(r, argss) ==
    /\ req[r].pc = "idle"
    /\ \E args \in argss : synthesize_speech(r, "service", args)
    /\ UNCHANGED <<pool_call, env>>

SynthesizeWorker(r, yields) ==
    /\ req[r].op = "synthesize" /\ req[r].pc = "scheduled"
    /\ \E yielded \in yields, generator_raises \in BOOLEAN :
          _synthesize_sync(r, yielded, generator_raises)
    /\ UNCHANGED <<pool_call, env>>

SynthesizeResume(r) ==
    /\ req[r].op = "synthesize" /\ req[r].pc = "worker_done"
    /\ synthesize_resume(r)
    /\ UNCHANGED <<pool_call, env>>

\* ---------------------------------------------------------------- inputs
\* Sequences over S of length 0..n.
SeqsUpTo(S, n) == UNION {[1..k -> S] : k \in 0..n}

\* The audio bytes uploaded with request r (each upload differs).
AudioOf(r) == <<r>>
Languages == {"auto", "en"}
Voices == {"af_heart", "bf_emma"}

\* An engine result: text is always there, the other keys may be absent.
EngineResult(keys, text, segments) ==
    [keys |-> keys, text |-> text, language |-> "en", duration |-> 2,
     segments |-> segments]

Segment(avg_logprob) == [avg_logprob |-> avg_logprob]

Texts == {<<>>, <<" ">>, <<"a">>, <<" ", "a", "\n">>, <<"a", " ", "b", " ">>}
Logprobs == {-20, -3, 0, 5}

AllKeys == {"language", "duration", "segments"}

\* Engine results of the lifecycle specification.
FewResults == {EngineResult(AllKeys, <<" ", "a", "\n">>, <<Segment(-3)>>)}

\* Engine results of the transcription specification.
ManyResults ==
    {EngineResult(keys, text, segments) :
        keys \in {AllKeys, {"segments"}}, text \in Texts,
        segments \in SeqsUpTo({Segment(l) : l \in Logprobs}, MaxSegments)}
    \cup {EngineResult(keys, text, <<>>) : keys \in {{}, {"language", "duration"}},
                                           text \in Texts}

Args(text, voice, speed, pitch) ==
    [text |-> text, voice |-> voice, speed |-> speed, pitch |-> pitch]

\* Requests of the lifecycle specification.
FewArgs == {Args(Text(11, 11), "af_heart", 100, 100), Args(Text(0, 0), "af_heart", 100, 100)}


\* Requests of the synthesis specification: in and out of the contract range.
ManyTexts == {Text(0, 0), Text(3, 0), Text(11, 11), Text(600, 600),
              Text(1000, 1000), Text(1001, 1001)}
ManySpeeds == {40, 50, 75, 100, 150, 200, 210}
ManyPitches == {40, 100, 150, 210}
ManyArgs ==
    {Args(text, "af_heart", speed, pitch) :
        text \in ManyTexts, speed \in ManySpeeds, pitch \in ManyPitches}
    \cup {Args(Text(11, 11), "bf_emma", 100, 100)}

\* Direct calls, which nothing validates.
DirectArgs ==
    {Args(Text(11, 11), "af_heart", speed, pitch) :
        speed \in {0, 25, 100, 300}, pitch \in {100, 0}}

Chunks == {<<1, 2, 3>>, <<4, 40000>>}
FewYields == {<<<<1, 2, 3>>>>}
ManyYields == SeqsUpTo(Chunks, MaxSegments)

SettingsValues == {500, 1000}

\* ------------------------------------------------------- specifications
NoPoolCall ==
    [op |-> "none", outcome |-> "returned", loads |-> 0,
     before |-> [whisper |-> FALSE, kokoro |-> FALSE, initialized |-> FALSE]]

\* The service object as constructed by main.lifespan, before initialize().
InitService ==
    /\ InitPool
    /\ pool_call = NoPoolCall
    /\ files = <<>>
    /\ req = [r \in Requests |-> Idle]

\* The lifecycle specification: the service object from construction on, under
\* the default settings, with initialize, cleanup, health queries and requests
\* in any order.  Its requests run at speed 1.0, so neither resampling path is
\* reached and librosa plays no part.
Init ==
    /\ InitService
    /\ librosa_available = FALSE
    /\ MAX_TEXT_LENGTH = 1000

Next ==
    \/ Initialize
    \/ Cleanup
    \/ \E r \in Requests :
          \/ Health(r)
          \/ TranscribeCall(r, {AudioOf(r)}, {"auto"})
          \/ TranscribeWorker(r, FewResults)
          \/ TranscribeResume(r)
          \/ SynthesizeRequest(r, FewArgs)
          \/ SynthesizeWorker(r, FewYields)
          \/ SynthesizeResume(r)
          \/ Retire(r)

Spec == Init /\ [][Next]_vars

\* The service after a successful initialize(), as main.lifespan leaves it
\* when the application starts serving.
InitServing ==
    /\ whisper_model = "Whisper"
    /\ kokoro_pipeline = "KPipeline"
    /\ initialized = TRUE
    /\ pool_call = [NoPoolCall EXCEPT !.op = "initialize", !.loads = 2]
    /\ files = <<>>
    /\ req = [r \in Requests |-> Idle]

\* The transcription specification: one request at a time on a serving
\* service, over the engine results of ManyResults.
InitTranscribe ==
    /\ InitServing
    /\ librosa_available = FALSE
    /\ MAX_TEXT_LENGTH = 1000

NextTranscribe ==
    \E r \in {1} :
        \/ TranscribeCall(r, {AudioOf(r)}, Languages)
        \/ TranscribeWorker(r, ManyResults)
        \/ TranscribeResume(r)
        \/ Retire(r)

SpecTranscribe == InitTranscribe /\ [][NextTranscribe]_vars

\* The synthesis specification: one request at a time on a serving service,
\* over the arguments of ManyArgs and DirectArgs, the generator outputs of
\* ManyYields, both resampling paths and the settings of SettingsValues.
InitSynthesize ==
    /\ InitServing
    /\ librosa_available \in BOOLEAN
    /\ MAX_TEXT_LENGTH \in SettingsValues

NextSynthesize ==
    \E r \in {1} :
        \/ SynthesizeRequest(r, ManyArgs)
        \/ SynthesizeCall(r, DirectArgs)
        \/ SynthesizeWorker(r, ManyYields)
        \/ SynthesizeResume(r)
        \/ Retire(r)

SpecSynthesize == InitSynthesize /\ [][NextSynthesize]_vars

\* The pitch specification: concurrent synthesis requests on a serving
\* service that differ in pitch and speed, on both resampling paths.
PitchArgs ==
    {Args(Text(11, 11), "af_heart", speed, pitch) :
        speed \in {50, 100, 200}, pitch \in {100, 150}}

PitchYields == {<<chunk>> : chunk \in Chunks}

InitPitch ==
    /\ InitServing
    /\ librosa_available \in BOOLEAN
    /\ MAX_TEXT_LENGTH = 1000

NextPitch ==
    \E r \in Requests :
        \/ SynthesizeRequest(r, PitchArgs)
        \/ SynthesizeWorker(r, PitchYields)
        \/ SynthesizeResume(r)
        \/ Retire(r)

SpecPitch == InitPitch /\ [][NextPitch]_vars

\* ================================================================ claims
Present(handle) == handle # None

\* The health status the handles and the flag amount to, written out.
StatusNow ==
    [whisper |-> Present(whisper_model), kokoro |-> Present(kokoro_pipeline),
     initialized |-> initialized]

\* C1: after an initialize() that raised (the STT load failed, or the STT
\* loaded and the TTS load failed) initialized is false, and as long as it
\* stays false every transcribe and synthesize call fails at once: nothing
\* is staged, no inference is scheduled and none runs.
C1_FailedInitializeUnusable ==
    [][ /\ (pool_call'.op = "initialize" /\ pool_call'.outcome = "raised") => ~initialized'
        /\ \A r \in Requests :
              (~initialized /\ req[r].pc = "idle"
                  /\ req'[r].op \in {"transcribe", "synthesize"})
              => /\ req'[r].pc \in {"raised", "rejected"}
                 /\ req'[r].inferences = 0
                 /\ req'[r].fut = NoFuture
                 /\ files' = files ]_vars

\* The STT has loaded, the TTS load has raised, and a transcribe and a
\* synthesize call have been turned away.
C1_Witness ==
    /\ pool_call.op = "initialize" /\ pool_call.outcome = "raised" /\ pool_call.loads = 2
    /\ Present(whisper_model) /\ ~Present(kokoro_pipeline) /\ ~initialized
    /\ \E r1, r2 \in Requests :
          /\ req[r1].op = "transcribe"
          /\ req[r1].out = Raised("Whisper model not initialized")
          /\ req[r2].op = "synthesize"
          /\ req[r2].out = Raised("Kokoro pipeline not initialized")

\* C2: once a transcribe call has returned or raised, no staging file it
\* created is left: every file on storage is the staging file of a call that
\* is still in flight.
C2_NoStagingFileRemains ==
    \A p \in DOMAIN files :
        \E r \in Requests :
            /\ req[r].op = "transcribe"
            /\ req[r].pc \in {"scheduled", "worker_done"}
            /\ req[r].temp_file_path = p

\* C3: an initialize() on an initialized service returns, invokes no load, and
\* leaves the health status and both handles as it found them.
C3_InitializeIdempotent ==
    (pool_call.op = "initialize" /\ pool_call.before.initialized)
    => /\ pool_call.outcome = "returned"
       /\ pool_call.loads = 0
       /\ StatusNow = pool_call.before
       /\ Present(whisper_model) /\ Present(kokoro_pipeline) /\ initialized

\* A second initialize() has returned on an initialized service.
C3_Witness ==
    /\ pool_call.op = "initialize" /\ pool_call.before.initialized
    /\ pool_call.before.whisper /\ pool_call.before.kokoro
    /\ initialized

\* C4: cleanup() can be called in every state of the service; it returns, and
\* after it both handles are absent and initialized is false.
C4_CleanupSafe ==
    /\ ENABLED Cleanup
    /\ pool_call.op = "cleanup"
       => /\ pool_call.outcome = "returned"
          /\ ~Present(whisper_model) /\ ~Present(kokoro_pipeline)
          /\ ~initialized

\* cleanup() has returned after an initialize() that loaded the STT only.
C4_Witness ==
    /\ pool_call.op = "cleanup"
    /\ pool_call.before = [whisper |-> TRUE, kokoro |-> FALSE, initialized |-> FALSE]
    /\ ~Present(whisper_model)

\* A synthesize call whose parameters are in the contract range.
ValidParameters(args) ==
    /\ args.text.len >= 1
    /\ args.speed \in MinSpeed..MaxSpeed
    /\ args.pitch \in MinPitch..MaxPitch

\* A synthesize call that ended after the engine yielded no segment.
ZeroSegments(c) ==
    /\ c.op = "synthesize" /\ c.pc \in {"returned", "raised"}
    /\ c.fut.state = "result" /\ c.fut.value.yielded = <<>>
    /\ ValidParameters(c.args)

\* The samples one second of silence has after the speed adjustment.
SilenceLength(speed, librosa) ==
    IF speed = Unit THEN SilenceSamples
    ELSE IF librosa THEN Round(SilenceSamples * Unit, speed)
    ELSE IF speed > Unit
    THEN (SilenceSamples + (speed \div Unit) - 1) \div (speed \div Unit)
    ELSE SilenceSamples * (Unit \div speed)

\* C5 (as stated): for all valid parameters, if the engine yields zero
\* segments the output is the encoding of exactly 24000 zero samples.
C5_SilenceOneSecond ==
    \A r \in Requests :
        ZeroSegments(req[r])
        => req[r].out = Returned([format |-> "WAV", samplerate |-> 24000,
                                  frames |-> Array([i \in 1..24000 |-> 0])])

\* C5 (amended): for all valid parameters, if the engine yields zero segments
\* synthesize does not fail, the waveform before the speed adjustment is
\* exactly 24000 zero samples, and the output is the encoding at 24000 Hz of
\* that silence after the speed adjustment: all samples zero, 24000 of them
\* at speed 1.0.
C5_SilenceResampled ==
    \A r \in Requests :
        ZeroSegments(req[r])
        => /\ req[r].fut.value.audio = Array([i \in 1..24000 |-> 0])
           /\ req[r].out.kind = "returned"
           /\ req[r].out.value.format = "WAV"
           /\ req[r].out.value.samplerate = 24000
           /\ Len(req[r].out.value.frames)
                 = SilenceLength(req[r].args.speed, librosa_available)
           /\ \A i \in DOMAIN req[r].out.value.frames : req[r].out.value.frames[i] = 0

\* Zero segments at speed 2.0 on the fallback path: 12000 zero samples.
C5_Witness ==
    \E r \in Requests :
        /\ ZeroSegments(req[r])
        /\ req[r].args.speed = 200 /\ ~librosa_available
        /\ req[r].out.kind = "returned"
        /\ Len(req[r].out.value.frames) = 12000

\* C6: a successful transcribe returns a confidence in [0, 1] and a text with
\* no leading or trailing whitespace; the confidence is 0.8 when the engine
\* result has no segments (key absent or list empty) and otherwise the clamped
\* exponential of the mean of the segments' avg_logprob.
C6_ConfidenceAndText ==
    \A r \in Requests :
        (req[r].op = "transcribe" /\ req[r].pc = "returned")
        => LET result == req[r].fut.value.result
               value == req[r].out.value
               n == Len(result.segments)
               total == Sum([i \in 1..n |-> result.segments[i].avg_logprob])
           IN  /\ value.confidence >= 0 /\ value.confidence <= SCALE
               /\ value.text = <<>>
                  \/ /\ value.text[1] \notin Whitespace
                     /\ value.text[Len(value.text)] \notin Whitespace
               /\ IF "segments" \notin result.keys \/ n = 0
                  THEN 10 * value.confidence = 8 * SCALE
                  ELSE value.confidence
                          = Max(0, Min(SCALE, Exp(total, n * LogprobDen)))

\* A transcription of a text with whitespace at both ends, over two segments,
\* with a confidence strictly inside the range.
C6_Witness ==
    \E r \in Requests :
        /\ req[r].op = "transcribe" /\ req[r].pc = "returned"
        /\ req[r].fut.value.result.text = <<" ", "a", "\n">>
        /\ "segments" \in req[r].fut.value.result.keys
        /\ Len(req[r].fut.value.result.segments) = 2
        /\ req[r].out.value.text = <<"a">>
        /\ req[r].out.value.confidence > 0 /\ req[r].out.value.confidence < SCALE

\* Parameters outside the contract range of the configured service.
OutOfContract(args) ==
    \/ args.text.len = 0
    \/ args.text.len > MAX_TEXT_LENGTH
    \/ args.speed \notin MinSpeed..MaxSpeed
    \/ args.pitch \notin MinPitch..MaxPitch

\* C7: a synthesis request whose parameters are out of the contract range is
\* rejected before any inference is scheduled; no engine call happens for it.
C7_RejectedBeforeInference ==
    \A r \in Requests :
        (req[r].op = "synthesize" /\ req[r].via = "http" /\ OutOfContract(req[r].args))
        => /\ req[r].pc = "rejected"
           /\ req[r].inferences = 0
           /\ req[r].fut = NoFuture

\* A transcribe or synthesize call fails in this step: its inference ends in
\* an exception, or the call raises.
FailsNow(r) ==
    /\ req'[r].op \in {"transcribe", "synthesize"}
    /\ \/ req[r].fut.state # "exception" /\ req'[r].fut.state = "exception"
       \/ req[r].pc # "raised" /\ req'[r].pc = "raised"

\* C8: a transcribe or synthesize call that fails, at whatever stage, leaves
\* both handles and the initialized flag as they were.
C8_FailureKeepsHandles ==
    [][ \A r \in Requests : FailsNow(r) => UNCHANGED pool ]_vars

\* On an initialized service one call has failed in inference and another
\* has been served.
C8_Witness ==
    /\ initialized /\ Present(whisper_model) /\ Present(kokoro_pipeline)
    /\ \E r1, r2 \in Requests :
          /\ req[r1].op = "transcribe" /\ req[r1].pc = "raised"
          /\ req[r1].fut.state = "exception" /\ req[r1].fut.what = "engine"
          /\ req[r2].op = "transcribe" /\ req[r2].pc = "returned"

\* C9: a health query reports the presence of each handle as it is at the
\* query, reports "healthy" exactly when both are present and "degraded"
\* otherwise, and changes nothing of the service.
C9_HealthReportsPresence ==
    [][ \A r \in Requests :
          (req[r].pc = "idle" /\ req'[r].op = "health")
          => /\ req'[r].out.kind = "returned"
             /\ req'[r].out.value.services = StatusNow
             /\ req'[r].out.value.status
                   = (IF Present(whisper_model) /\ Present(kokoro_pipeline)
                      THEN "healthy" ELSE "degraded")
             /\ UNCHANGED <<pool, pool_call, files>>
             /\ \A q \in Requests \ {r} : req'[q] = req[q] ]_vars

\* Two answers side by side: "healthy" from a query on the initialized
\* service, "degraded" with the STT present from a query after a partial load.
C9_Witness ==
    \E r1, r2 \in Requests :
        /\ req[r1].op = "health" /\ req[r1].out.value.status = "healthy"
        /\ req[r2].op = "health" /\ req[r2].out.value.status = "degraded"
        /\ req[r2].out.value.services.whisper
        /\ ~req[r2].out.value.services.kokoro

\* What the engine did for a call that has ended.
EngineOutput(c) ==
    IF c.fut.state = "result"
    THEN [raised |-> FALSE, yielded |-> c.fut.value.yielded]
    ELSE [raised |-> TRUE, yielded |-> <<>>]

\* Two ended synthesize calls that agree on everything but the pitch.
DifferInPitchOnly(c, d) ==
    /\ c.op = "synthesize" /\ d.op = "synthesize"
    /\ c.pc \in {"returned", "raised"} /\ d.pc \in {"returned", "raised"}
    /\ c.fut.state # "none" /\ d.fut.state # "none"
    /\ c.args.text = d.args.text /\ c.args.voice = d.args.voice
    /\ c.args.speed = d.args.speed
    /\ c.args.pitch # d.args.pitch
    /\ EngineOutput(c) = EngineOutput(d)

\* C10: two synthesize calls that agree on text, voice, speed and engine
\* output and differ in pitch have the same outcome.
C10_PitchHasNoEffect ==
    \A r1, r2 \in Requests :
        DifferInPitchOnly(req[r1], req[r2]) => req[r1].out = req[r2].out

\* Two resampled outputs of calls at pitch 1.0 and pitch 1.5.
C10_Witness ==
    \E r1, r2 \in Requests :
        /\ DifferInPitchOnly(req[r1], req[r2])
        /\ req[r1].args.pitch = 100 /\ req[r2].args.pitch = 150
        /\ req[r1].args.speed = 200
        /\ req[r1].out.kind = "returned"
        /\ Len(req[r1].out.value.frames) > 0

\* The last call on the pool was an initialize() that returned: the handles
\* the pool holds are those of a completed successful initialize(), and no
\* cleanup() has released them since.
LoadedByCompletedInitialize ==
    pool_call.op = "initialize" /\ pool_call.outcome = "returned"

\* A worker invokes an engine for request r in this step.
InvokesEngine(r) == req'[r].inferences > req[r].inferences

\* C11: in every interleaving of initialize(), cleanup() and requests, a worker
\* that invokes an engine uses a handle loaded by a completed successful
\* initialize() and not yet released by cleanup(); the handles change in
\* initialize() and cleanup() only, never in a step of a request.
C11_InitializeBeforeInference ==
    [][ /\ \A r \in Requests :
              InvokesEngine(r) => LoadedByCompletedInitialize /\ initialized
        /\ pool' # pool => req' = req ]_vars

\* The one error each pipeline reports.
PipelineError(op) ==
    IF op = "transcribe" THEN Raised("Transcription failed")
    ELSE Raised("Speech synthesis failed")

\* A step of request r itself.
Moves(r) == req'[r] # req[r]

\* C12: a transcribe or synthesize request submits at most one inference call
\* and never retries: it is scheduled once, at the call; at most one engine
\* invocation is made for it; and once its future has failed its next step
\* ends it with the pipeline's one error and no result.
C12_OneInferenceOneError ==
    [][ \A r \in Requests :
          /\ (req'[r].pc = "scheduled" /\ Moves(r)) => req[r].pc = "idle"
          /\ req'[r].inferences <= 1
          /\ (req[r].pc = "worker_done" /\ Moves(r))
             => /\ req'[r].pc \in {"returned", "raised"}
                /\ req'[r].fut = req[r].fut
                /\ req'[r].inferences = req[r].inferences
          /\ (req[r].pc = "worker_done" /\ req[r].fut.state = "exception" /\ Moves(r))
             => /\ req'[r].pc = "raised"
                /\ req'[r].out = PipelineError(req[r].op)
                /\ DOMAIN req'[r].out = {"kind", "error", "message"}
          /\ (req[r].pc = "worker_done" /\ Moves(r) /\ req'[r].pc = "raised")
             => req'[r].out = PipelineError(req[r].op)
          /\ (req'[r].op \in {"transcribe", "synthesize"} /\ req'[r].pc = "returned")
             => req'[r].fut.state = "result" /\ req'[r].out.kind = "returned" ]_vars

\* A transcription and a synthesis have each ended in their pipeline's error
\* after the one inference made for them raised.
C12_Witness ==
    \E r1, r2 \in Requests :
        /\ req[r1].op = "transcribe" /\ req[r1].pc = "raised"
        /\ req[r1].fut.state = "exception" /\ req[r1].inferences = 1
        /\ req[r1].out = Raised("Transcription failed")
        /\ req[r2].op = "synthesize" /\ req[r2].pc = "raised"
        /\ req[r2].fut.state = "exception" /\ req[r2].inferences = 1
        /\ req[r2].out = Raised("Speech synthesis failed")

\* C13: in every reachable state of the pool, also after a failed
\* initialize(), a handle is present (reported ready by get_health_status)
\* only when initialized is true: the pool is never seen with one handle
\* present and initialized false.
C13_PresentOnlyWhenInitialized ==
    /\ (Present(whisper_model) \/ Present(kokoro_pipeline)) => initialized
    /\ (get_health_status.whisper \/ get_health_status.kokoro)
       => get_health_status.initialized

\* A sample as the 16-bit encoding stores it.
Encoded(sample) == Max(-32768, Min(32767, sample))

\* A synthesize call with a speed in [0.5, 2.0] that ended after the engine
\* produced a non-empty waveform.
AdjustedNonEmpty(c) ==
    /\ c.op = "synthesize" /\ c.pc \in {"returned", "raised"}
    /\ c.fut.state = "result" /\ c.fut.value.audio # <<>>
    /\ c.args.speed \in MinSpeed..MaxSpeed

SamplesUpTo(yielded, k) == Sum(Array([i \in 1..k |-> Len(yielded[i])]))

\* The waveform holds every sample of every segment at its place in emission
\* order, and nothing else.
InEmissionOrder(audio, yielded) ==
    /\ Len(audio) = SamplesUpTo(yielded, Len(yielded))
    /\ \A k \in DOMAIN yielded : \A j \in DOMAIN yielded[k] :
          audio[SamplesUpTo(yielded, k - 1) + j] = yielded[k][j]

\* A synthesis whose generator ended after yielding its segments.
Drained(c) == c.op = "synthesize" /\ c.fut.state = "result"

\* C15 (as stated): for every finite sequence of segments the engine yields,
\* the waveform is the concatenation of every segment's chunk in emission
\* order; no chunk is dropped, duplicated or reordered.
C15_ConcatenationOfSegments ==
    \A r \in Requests :
        Drained(req[r])
        => InEmissionOrder(req[r].fut.value.audio, req[r].fut.value.yielded)

\* C15 (amended): for every non-empty finite sequence of segments the engine
\* yields, the waveform is the concatenation of every segment's chunk in
\* emission order, no chunk dropped, duplicated or reordered; for the empty
\* sequence the waveform is 24000 zero samples.
C15_ConcatenationOrSilence ==
    \A r \in Requests :
        Drained(req[r])
        => IF req[r].fut.value.yielded # <<>>
           THEN InEmissionOrder(req[r].fut.value.audio, req[r].fut.value.yielded)
           ELSE /\ Len(req[r].fut.value.audio) = 24000
                /\ \A i \in 1..24000 : req[r].fut.value.audio[i] = 0

\* Two different segments, the shorter one first, have been joined.
C15_Witness ==
    \E r \in Requests :
        /\ Drained(req[r])
        /\ req[r].fut.value.yielded = << <<4, 40000>>, <<1, 2, 3>> >>
        /\ req[r].fut.value.audio = <<4, 40000, 1, 2, 3>>

\* A transcribe request between its call and its return.
InFlight(c) == c.op = "transcribe" /\ c.pc \in {"scheduled", "worker_done"}

\* C16: in every interleaving of transcribe requests each request works on
\* its own staging file: no two requests in flight share a file, the file of
\* a request in flight holds that request's audio and the engine call reads
\* exactly that, and the cleanup of a request removes its own file only,
\* leaving the file of every other request in flight as it was.
C16_OwnStagingFile ==
    [][ /\ \A r1, r2 \in Requests :
              (r1 # r2 /\ InFlight(req'[r1]) /\ InFlight(req'[r2]))
              => req'[r1].temp_file_path # req'[r2].temp_file_path
        /\ \A r \in Requests :
              InFlight(req'[r])
              => /\ req'[r].temp_file_path \in DOMAIN files'
                 /\ files'[req'[r].temp_file_path] = req'[r].args.audio_data
        /\ \A r \in Requests :
              (req'[r].op = "transcribe" /\ req'[r].fut.state = "result")
              => req'[r].fut.value.input = req'[r].args.audio_data
        /\ \A r \in Requests :
              (InFlight(req[r]) /\ req[r].pc = "worker_done" /\ Moves(r))
              => /\ DOMAIN files' = DOMAIN files \ {req[r].temp_file_path}
                 /\ \A p \in DOMAIN files' : files'[p] = files[p] ]_vars

\* Two transcriptions in flight on two files: the engine has read the audio
\* of the first while the second still waits for its worker.
C16_Witness ==
    \E r1, r2 \in Requests :
        /\ InFlight(req[r1]) /\ req[r1].fut.state = "result"
        /\ req[r1].fut.value.input = AudioOf(r1)
        /\ InFlight(req[r2]) /\ req[r2].pc = "scheduled"
        /\ req[r1].temp_file_path # req[r2].temp_file_path
        /\ files[req[r2].temp_file_path] = AudioOf(r2)

====
